---- MODULE Spec2Model ----
(***************************************************************************)
(* Model of src/backend/routers/students.py: the student-picture router.   *)
(*                                                                         *)
(* Shared state: the students collection of the document store and the     *)
(* upload directory.  Every request handler invocation is a process.  An   *)
(* upload walks through the handler's I/O operations one at a time (file   *)
(* write, find_one, unlink, update_one); nothing in the handler locks the  *)
(* store or the directory, so handlers running in different workers        *)
(* interleave at these points.  The two read handlers perform one find     *)
(* each and are single steps.                                              *)
(***************************************************************************)
EXTENDS Naturals, Sequences, FiniteSets, TLC

VARIABLES
    students,    \* students_collection: a set of documents, each with an _id
    files,       \* UPLOAD_DIR: function from the file names present to their contents
    req,         \* per worker: the upload invocation it is running, if any
    resp,        \* <<>> or <<r>>: the response a handler that ran as one step
                 \* has just produced
    lastOk,      \* history: per email, the picture_url of the latest successful upload
    sequential,  \* history: no upload has started while another was in progress
    faulted,     \* history: some file operation has raised so far
    started      \* history: number of upload invocations so far

vars == <<students, files, req, resp, lastOk, sequential, faulted, started>>

-----------------------------------------------------------------------------
(* Bounds of the model *)

\* number of workers that can run an upload at the same time
NumWorkers == 2
\* number of distinct values uuid.uuid4().hex[:8] is drawn from
NumUuid == 2
\* number of upload invocations in one behaviour
MaxUploads == 2

Workers == 1..NumWorkers

-----------------------------------------------------------------------------
(* Inputs *)

\* Request emails.  The first two are distinct addresses whose md5 digests
\* share their first 12 hex digits:
\*   md5("sf6760f9aa1d0@mergington.edu") = 24db50e7ab85dd06caf284efe4aba9d1
\*   md5("sc4daf3069893@mergington.edu") = 24db50e7ab8598ba3eb26f9551045b95
\*   md5("emma@mergington.edu")          = c1412d7fcc26...
Emails == {"sf6760f9aa1d0@mergington.edu", "sc4daf3069893@mergington.edu",
           "emma@mergington.edu"}

\* hashlib.md5(email.encode()).hexdigest()[:12], on the emails of the model
EmailHash(email) ==
    CASE email = "sf6760f9aa1d0@mergington.edu" -> "24db50e7ab85"
      [] email = "sc4daf3069893@mergington.edu" -> "24db50e7ab85"
      [] email = "emma@mergington.edu"          -> "c1412d7fcc26"

\* uuid.uuid4().hex[:8]: a random 32-bit value, nothing keeps it fresh
UuidFragments == 1..NumUuid

\* picture.filename, as sequences of characters
Filenames == { <<"a", ".", "J", "P", "G">>,
               <<"a", ".", "t", "x", "t">>,
               <<"b", ".", "p", "n", "g", "/", "c">>,
               <<".", "g", "i", "f">> }

\* teacher_username: <<>> is an absent query parameter, <<s>> the string s
TeacherParams == { <<>>, <<"">>, <<"mrodriguez">>, <<"intruder">> }

\* the _id values of teachers_collection
TeacherIds == {"mrodriguez"}

-----------------------------------------------------------------------------
(* Pure helpers *)

Last(s) == s[Len(s)]

\* largest index of character c in s, 0 when absent (str.rfind, 1-based)
RECURSIVE RFind(_, _, _)
RFind(s, c, i) ==
    IF i = 0 THEN 0
    ELSE IF s[i] = c THEN i
    ELSE RFind(s, c, i - 1)

\* PurePath.name: the final path component
PathName(s) == SubSeq(s, RFind(s, "/", Len(s)) + 1, Len(s))

\* PurePath.suffix: from the last dot of the name, unless the dot is the
\* first or the last character of the name
PathSuffix(s) ==
    LET name == PathName(s)
        i    == RFind(name, ".", Len(name))
    IN  IF 1 < i /\ i < Len(name) THEN SubSeq(name, i, Len(name)) ELSE <<>>

LowerChar(c) ==
    CASE c = "J" -> "j" [] c = "P" -> "p" [] c = "G" -> "g"
      [] c = "E" -> "e" [] c = "N" -> "n" [] c = "I" -> "i"
      [] c = "F" -> "f" [] c = "T" -> "t" [] c = "X" -> "x"
      [] OTHER -> c

\* str.lower
Lower(s) == [i \in 1..Len(s) |-> LowerChar(s[i])]

\* variant: .txt let through as well
ALLOWED_EXTENSIONS_WithTxt ==
    { <<".", "j", "p", "g">>, <<".", "j", "p", "e", "g">>,
      <<".", "p", "n", "g">>, <<".", "g", "i", "f">>, <<".", "t", "x", "t">> }

ALLOWED_EXTENSIONS ==
    { <<".", "j", "p", "g">>, <<".", "j", "p", "e", "g">>,
      <<".", "p", "n", "g">>, <<".", "g", "i", "f">> }

is_allowed_file(filename) == Lower(PathSuffix(filename)) \in ALLOWED_EXTENSIONS

\* f"student_{email_hash}_{uuid4().hex[:8]}{file_extension}": the three
\* parts have fixed shapes, so the tuple stands for the string
UniqueFilename(email, frag, filename) ==
    <<EmailHash(email), frag, Lower(PathSuffix(filename))>>

\* f"/static/uploads/{unique_filename}", kept split at its slashes
PictureUrl(name) == <<"", "static", "uploads", name>>

\* student["picture_url"].split("/")[-1]
OldFilename(url) == Last(url)

-----------------------------------------------------------------------------
(* Documents of students_collection *)

HasPicture(d) == "picture_url" \in DOMAIN d

\* students_collection.find_one({"_id": email}): the set holding the
\* document found, empty when there is none (_id is unique)
FindOne(docs, email) == {d \in docs : d._id = email}

\* update_one({"_id": email}, {"$set": {picture_url, picture_filename}},
\*            upsert=True)
UpdateOneUpsert(docs, email, url, name) ==
    {d \in docs : d._id # email}
        \cup {[_id |-> email, picture_url |-> url, picture_filename |-> name]}

-----------------------------------------------------------------------------
(* The upload directory *)

EmptyDir == [n \in {} |-> ""]

Exists(name) == name \in DOMAIN files

\* open(file_path, "wb") followed by f.write(contents): creates the file
\* or replaces what a file of that name held
Written(dir, name, contents) ==
    [n \in DOMAIN dir \cup {name} |-> IF n = name THEN contents ELSE dir[n]]

\* variant: the unlink is left out
Unlinked_Kept(dir, name) == dir

\* old_file_path.unlink()
Unlinked(dir, name) == [n \in DOMAIN dir \ {name} |-> dir[n]]

\* variant: the handler removes the file when the write raised
FailedWriteOutcomes_Cleanup(dir, name) == {dir, Unlinked(dir, name)}

\* The directory after the write at lines 64-67 raised: open() raised and
\* nothing changed, or the file was opened (created or truncated) and the
\* write raised before the contents were complete
FailedWriteOutcomes(dir, name) == {dir, Written(dir, name, "")}

-----------------------------------------------------------------------------
(* upload_student_picture *)

IdleReq ==
    [pc |-> "idle", email |-> "", filename |-> <<>>, teacher |-> <<>>,
     name |-> <<>>, student |-> {}, unlinkErr |-> "", result |-> "",
     url |-> <<>>]

\* variant: only an absent parameter counts as missing, "" is looked up
AuthError_NoneOnly(teacher) ==
    IF teacher = <<>> THEN "Unauthorized"
    ELSE IF teacher[1] \notin TeacherIds THEN "InvalidCredentials"
    ELSE ""

\* lines 41-47: the authentication checks; "" when they pass
AuthError(teacher) ==
    IF teacher = <<>> \/ teacher[1] = "" THEN "Unauthorized"
    ELSE IF teacher[1] \notin TeacherIds THEN "InvalidCredentials"
    ELSE ""

\* lines 41-54: the checks made before anything is written, in order
RequestError(teacher, filename) ==
    IF AuthError(teacher) # "" THEN AuthError(teacher)
    ELSE IF ~is_allowed_file(filename) THEN "InvalidFileType"
    ELSE ""

InProgress(w) == req[w].pc \notin {"idle", "done"}

Finish(w, result) ==
    [req[w] EXCEPT !.pc = "done", !.result = result, !.student = {}]

\* lines 35-54: a request that fails one of the checks; nothing but the
\* teachers collection has been read, and the response goes out at once.
\* The step reads and writes nothing the other handlers touch, so where it
\* falls among their steps makes no difference: it is taken between uploads
RejectUpload(email, filename, teacher) ==
    /\ resp = <<>>
    /\ \A w \in Workers : ~InProgress(w)
    /\ started < MaxUploads
    /\ RequestError(teacher, filename) # ""
    /\ resp' = <<[op |-> "upload", email |-> email, filename |-> filename,
                  teacher |-> teacher, status |-> RequestError(teacher, filename)]>>
    /\ started' = started + 1
    /\ UNCHANGED <<students, files, req, lastOk, sequential, faulted>>

\* requests go to the first worker that is not running an upload; what the
\* worker's last upload returned stays in req until then
FirstFree(w) == ~InProgress(w) /\ \A v \in Workers : v < w => InProgress(v)

\* lines 35-61: a request that passes the checks; the file name is
\* generated and the handler awaits picture.read()
StartUpload(w, email, filename, teacher, frag) ==
    /\ resp = <<>>
    /\ FirstFree(w)
    /\ started < MaxUploads
    /\ RequestError(teacher, filename) = ""
    /\ req' = [req EXCEPT ![w] =
                 [IdleReq EXCEPT !.pc = "write", !.email = email,
                                 !.filename = filename, !.teacher = teacher,
                                 !.name = UniqueFilename(email, frag, filename)]]
    /\ started' = started + 1
    /\ sequential' = (sequential /\ \A v \in Workers \ {w} : ~InProgress(v))
    /\ UNCHANGED <<students, files, resp, lastOk, faulted>>

\* lines 64-67: the file is written
WriteFile(w) ==
    /\ resp = <<>>
    /\ req[w].pc = "write"
    /\ files' = Written(files, req[w].name, req[w].email)
    /\ req' = [req EXCEPT ![w].pc = "find"]
    /\ UNCHANGED <<students, resp, lastOk, sequential, faulted, started>>

\* lines 68-69: the write raised, the request fails with status 500
\* "Failed to save file"
WriteFileFails(w) ==
    /\ resp = <<>>
    /\ req[w].pc = "write"
    /\ files' \in FailedWriteOutcomes(files, req[w].name)
    /\ req' = [req EXCEPT ![w] = Finish(w, "StorageWriteFailure")]
    /\ faulted' = TRUE
    /\ UNCHANGED <<students, resp, lastOk, sequential, started>>

\* line 74
FindStudent(w) ==
    /\ resp = <<>>
    /\ req[w].pc = "find"
    /\ req' = [req EXCEPT ![w].pc = "exists",
                          ![w].student = FindOne(students, req[w].email)]
    /\ UNCHANGED <<students, files, resp, lastOk, sequential, faulted, started>>

\* the old file the handler is about to look at: lines 77-79
OldFiles(w) == {OldFilename(d.picture_url) : d \in {s \in req[w].student : HasPicture(s)}}

\* lines 77-80: no previous picture, or its file is not there
CheckOldFileSkip(w) ==
    /\ resp = <<>>
    /\ req[w].pc = "exists"
    /\ \A old \in OldFiles(w) : ~Exists(old)
    /\ req' = [req EXCEPT ![w].pc = "upsert"]
    /\ UNCHANGED <<students, files, resp, lastOk, sequential, faulted, started>>

\* lines 77-80: old_file_path.exists() holds
CheckOldFileExists(w) ==
    /\ resp = <<>>
    /\ req[w].pc = "exists"
    /\ \E old \in OldFiles(w) : Exists(old)
    /\ req' = [req EXCEPT ![w].pc = "unlink"]
    /\ UNCHANGED <<students, files, resp, lastOk, sequential, faulted, started>>

\* line 82: the old file is removed
UnlinkOld(w) ==
    /\ resp = <<>>
    /\ req[w].pc = "unlink"
    /\ \E old \in OldFiles(w) :
         /\ Exists(old)
         /\ files' = Unlinked(files, old)
    /\ req' = [req EXCEPT ![w].pc = "upsert"]
    /\ UNCHANGED <<students, resp, lastOk, sequential, faulted, started>>

\* lines 83-85: unlink raised FileNotFoundError (the file went away after
\* the exists() check) or PermissionError; the handler prints and goes on
UnlinkSwallowed(w) ==
    /\ resp = <<>>
    /\ req[w].pc = "unlink"
    /\ \E old \in OldFiles(w) :
         req' = [req EXCEPT ![w].pc = "upsert",
                            ![w].unlinkErr = IF Exists(old) THEN "PermissionError"
                                             ELSE "FileNotFoundError"]
    /\ faulted' = TRUE
    /\ UNCHANGED <<students, files, resp, lastOk, sequential, started>>

\* line 82: unlink raised an OSError that line 83 does not name (EBUSY,
\* EIO, EROFS, IsADirectoryError, ...); it leaves the handler and the
\* request fails with status 500
UnlinkRaises(w) ==
    /\ resp = <<>>
    /\ req[w].pc = "unlink"
    /\ \E old \in OldFiles(w) : Exists(old)
    /\ req' = [req EXCEPT ![w] =
                 [Finish(w, "InternalServerError") EXCEPT !.unlinkErr = "OSError"]]
    /\ faulted' = TRUE
    /\ UNCHANGED <<students, files, resp, lastOk, sequential, started>>

\* lines 88-97: the record is upserted and the response returned
UpdateStudent(w) ==
    /\ resp = <<>>
    /\ req[w].pc = "upsert"
    /\ LET url == PictureUrl(req[w].name)
       IN  /\ students' = UpdateOneUpsert(students, req[w].email, url, req[w].name)
           /\ req' = [req EXCEPT ![w] = [Finish(w, "ok") EXCEPT !.url = url]]
           /\ lastOk' = [lastOk EXCEPT ![req[w].email] = {url}]
    /\ UNCHANGED <<files, resp, sequential, faulted, started>>

-----------------------------------------------------------------------------
(* get_student_picture and get_all_students *)

\* variant: only the document is looked for, not its picture_url field
get_student_picture_AnyDoc(docs, email) ==
    LET student == FindOne(docs, email)
    IN  IF student = {}
        THEN [op |-> "get", email |-> email, status |-> 404, body |-> <<>>]
        ELSE [op |-> "get", email |-> email, status |-> 200,
              body |-> [email |-> email,
                        picture_url |->
                            LET d == CHOOSE x \in student : TRUE
                            IN  IF HasPicture(d) THEN d.picture_url ELSE <<>>]]

\* lines 100-110
get_student_picture(docs, email) ==
    LET student == FindOne(docs, email)
    IN  IF student = {} \/ \A d \in student : ~HasPicture(d)
        THEN [op |-> "get", email |-> email, status |-> 404, body |-> <<>>]
        ELSE [op |-> "get", email |-> email, status |-> 200,
              body |-> [email |-> email,
                        picture_url |-> (CHOOSE d \in student : TRUE).picture_url]]

\* variant: students without a picture are left out of the listing
get_all_students_PicturesOnly(docs) ==
    [op |-> "list", email |-> "", status |-> 200,
     body |-> [e \in {d._id : d \in {x \in docs : HasPicture(x)}} |->
                 LET d == CHOOSE x \in docs : x._id = e
                 IN  [f \in DOMAIN d \ {"_id"} |-> d[f]]]]

\* lines 114-121: student.pop('_id') takes the identifier out of the
\* document and makes it the key
get_all_students(docs) ==
    [op |-> "list", email |-> "", status |-> 200,
     body |-> [e \in {d._id : d \in docs} |->
                 LET d == CHOOSE x \in docs : x._id = e
                 IN  [f \in DOMAIN d \ {"_id"} |-> d[f]]]]

\* a read handler runs; its response is held in resp for one step
GetPicture(email) ==
    /\ resp = <<>>
    /\ resp' = <<get_student_picture(students, email)>>
    /\ UNCHANGED <<students, files, req, lastOk, sequential, faulted, started>>

ListAll ==
    /\ resp = <<>>
    /\ resp' = <<get_all_students(students)>>
    /\ UNCHANGED <<students, files, req, lastOk, sequential, faulted, started>>

Deliver ==
    /\ resp # <<>>
    /\ resp' = <<>>
    /\ UNCHANGED <<students, files, req, lastOk, sequential, faulted, started>>

-----------------------------------------------------------------------------
(* The system *)

\* The store and the directory outlive the process.  At the start one
\* student has the document and the file an earlier upload left, one has a
\* document that other parts of the application created, without picture
\* fields, and one has no document yet
InitialName == UniqueFilename("emma@mergington.edu", 1, <<"a", ".", "J", "P", "G">>)

Init ==
    /\ students = { [_id |-> "emma@mergington.edu",
                     picture_url |-> PictureUrl(InitialName),
                     picture_filename |-> InitialName],
                    [_id |-> "sf6760f9aa1d0@mergington.edu"] }
    /\ files = Written(EmptyDir, InitialName, "emma@mergington.edu")
    /\ req = [w \in Workers |-> IdleReq]
    /\ resp = <<>>
    /\ lastOk = [e \in Emails |->
                   IF e = "emma@mergington.edu" THEN {PictureUrl(InitialName)}
                   ELSE {}]
    /\ sequential = TRUE
    /\ faulted = FALSE
    /\ started = 0

\* the request parameters, split by the outcome of the checks
Rejected == {p \in Filenames \X TeacherParams : RequestError(p[2], p[1]) # ""}
Accepted == {p \in Filenames \X TeacherParams : RequestError(p[2], p[1]) = ""}

Next ==
    \/ \E e \in Emails, p \in Rejected : RejectUpload(e, p[1], p[2])
    \/ \E w \in Workers, e \in Emails, p \in Accepted, frag \in UuidFragments :
          StartUpload(w, e, p[1], p[2], frag)
    \/ \E w \in Workers : WriteFile(w)
    \/ \E w \in Workers : WriteFileFails(w)
    \/ \E w \in Workers : FindStudent(w)
    \/ \E w \in Workers : CheckOldFileSkip(w)
    \/ \E w \in Workers : CheckOldFileExists(w)
    \/ \E w \in Workers : UnlinkOld(w)
    \/ \E w \in Workers : UnlinkSwallowed(w)
    \/ \E w \in Workers : UnlinkRaises(w)
    \/ \E w \in Workers : UpdateStudent(w)
    \/ \E e \in Emails : GetPicture(e)
    \/ ListAll
    \/ Deliver

Spec == Init /\ [][Next]_vars

-----------------------------------------------------------------------------
(* Vocabulary of the properties *)

\* teacher_username absent or empty
MissingTeacher(t) == t \in { <<>>, <<"">> }

\* the file names of the model whose extension is none of .jpg, .jpeg,
\* .png, .gif in any letter case
NotImageFilenames == { <<"a", ".", "t", "x", "t">>,
                       <<"b", ".", "p", "n", "g", "/", "c">>,
                       <<".", "g", "i", "f">> }

\* the response held in resp, when it comes from handler op
Responses(op) == {resp[i] : i \in {j \in DOMAIN resp : resp[j].op = op}}

\* the documents of email that carry a picture_url
PictureDocs(email) == {d \in students : d._id = email /\ "picture_url" \in DOMAIN d}

\* some student document names file n
Referenced(n) ==
    \E d \in students : "picture_filename" \in DOMAIN d /\ d.picture_filename = n

ReturnedOk(w) == req[w].pc = "done" /\ req[w].result = "ok"

-----------------------------------------------------------------------------
(* Properties *)

\* C1: of two successful uploads for one email that run one after the
\* other, the second returns a picture_url different from the first's, and
\* when the second returns the file the first wrote is gone.
C1_SecondUploadReplacesFirst ==
    [][\A w \in Workers :
         (sequential' /\ req[w].pc = "upsert" /\ ReturnedOk(w)')
            => \A first \in lastOk[req[w].email] :
                 /\ req'[w].url # first
                 /\ OldFilename(first) \notin DOMAIN files']_vars

\* C2: an upload without teacher_username (absent or empty) fails with
\* Unauthorized and one whose teacher_username matches no teacher fails
\* with InvalidCredentials, whatever the email and the file name; no such
\* upload gets past the checks.
C2_AuthFailures ==
    /\ \A r \in Responses("upload") :
         /\ MissingTeacher(r.teacher) => r.status = "Unauthorized"
         /\ (~MissingTeacher(r.teacher) /\ r.teacher[1] \notin TeacherIds)
               => r.status = "InvalidCredentials"
    /\ \A w \in Workers :
         req[w].pc # "idle"
            => ~MissingTeacher(req[w].teacher) /\ req[w].teacher[1] \in TeacherIds

C2_Witness ==
    \E r \in Responses("upload") :
        /\ r.teacher = <<"">>
        /\ r.status = "Unauthorized"
        /\ r.filename = <<"a", ".", "J", "P", "G">>
        /\ \E d \in students : "picture_url" \in DOMAIN d

\* C3 as stated: an upload whose file name has no allowed extension fails
\* with InvalidFileType whatever teacher_username is.
C3_InvalidFileTypeRegardlessOfAuth ==
    /\ \A r \in Responses("upload") :
         r.filename \in NotImageFilenames => r.status = "InvalidFileType"
    /\ \A w \in Workers :
         req[w].pc # "idle" => req[w].filename \notin NotImageFilenames

\* C3 amended: an upload whose file name has no allowed extension never
\* gets past the checks; it fails with InvalidFileType when
\* teacher_username names a teacher, with Unauthorized when it is missing
\* and with InvalidCredentials when it names no teacher.
C3_InvalidFileTypeAfterAuth ==
    /\ \A r \in Responses("upload") :
         r.filename \in NotImageFilenames
            => r.status = IF MissingTeacher(r.teacher) THEN "Unauthorized"
                          ELSE IF r.teacher[1] \notin TeacherIds
                               THEN "InvalidCredentials"
                          ELSE "InvalidFileType"
    /\ \A w \in Workers :
         req[w].pc # "idle" => req[w].filename \notin NotImageFilenames

C3_Witness ==
    \E r \in Responses("upload") :
        /\ r.filename = <<"a", ".", "t", "x", "t">>
        /\ r.teacher = <<"mrodriguez">>
        /\ r.status = "InvalidFileType"

\* C4: when the attempt to delete the previous file fails, for whatever
\* reason, the upload goes on to upsert the record and returns success
\* with the new picture_url.
C4_DeleteFailureNotSurfaced ==
    \A w \in Workers :
        req[w].unlinkErr # ""
            => \/ req[w].pc = "upsert"
               \/ ReturnedOk(w) /\ req[w].url = PictureUrl(req[w].name)

\* C5: listAll returns a mapping whose keys are exactly the emails that
\* have a student document, without the identifier in the values; for every
\* email with a successful upload the value's picture_url is the one the
\* latest successful upload returned; listAll changes neither the store nor
\* the directory.
C5_ListAll ==
    /\ [](\A r \in Responses("list") :
            /\ r.status = 200
            /\ DOMAIN r.body = {d._id : d \in students}
            /\ \A e \in DOMAIN r.body : "_id" \notin DOMAIN r.body[e]
            /\ \A e \in Emails :
                 lastOk[e] # {}
                    => /\ e \in DOMAIN r.body
                       /\ "picture_url" \in DOMAIN r.body[e]
                       /\ r.body[e].picture_url \in lastOk[e])
    /\ [][(resp = <<>> /\ resp' # <<>> /\ resp'[1].op = "list")
            => UNCHANGED <<students, files>>]_vars

C5_Witness ==
    \E r \in Responses("list") :
        /\ sequential
        /\ \E e \in DOMAIN r.body : lastOk[e] # {}
        /\ \E e \in DOMAIN r.body : lastOk[e] = {}
        /\ started = MaxUploads
        /\ \E w \in Workers : ReturnedOk(w) /\ r.body[req[w].email].picture_url = req[w].url

\* C6: getPicture(email) fails with NotFound exactly when the email has no
\* document or its document has no picture_url, so for every email without
\* a successful upload; otherwise it returns the email and the picture_url
\* stored in the document.
C6_GetPicture ==
    \A r \in Responses("get") :
        /\ r.status \in {200, 404}
        /\ r.status = 404 <=> PictureDocs(r.email) = {}
        /\ lastOk[r.email] = {} => r.status = 404
        /\ r.status = 200
             => /\ r.body.email = r.email
                /\ \A d \in PictureDocs(r.email) : r.body.picture_url = d.picture_url

C6_Witness ==
    \E r \in Responses("get") :
        /\ r.status = 200
        /\ \E d \in students : d._id # r.email /\ "picture_url" \notin DOMAIN d

\* C7: the file names generated for two uploads with different emails are
\* different.
C7_NamesOfDifferentEmailsDiffer ==
    \A v, w \in Workers :
        (req[v].pc # "idle" /\ req[w].pc # "idle" /\ req[v].email # req[w].email)
            => req[v].name # req[w].name

\* C8: an unreferenced file can only come from uploads that overlap (or
\* from a file operation that raised): as long as uploads have run one at a
\* time and no file operation has raised, every file in the directory is
\* named by a student document or is the new file of the upload in
\* progress.  The witness is the race: two overlapping uploads for one
\* email have both returned success, no file operation has raised, and a
\* file written for that student is named by no document.
C8_NoOrphanWithoutOverlap ==
    (sequential /\ ~faulted)
        => \A n \in DOMAIN files :
             Referenced(n) \/ \E w \in Workers : InProgress(w) /\ req[w].name = n

C8_Witness ==
    /\ ~faulted
    /\ ~sequential
    /\ \E v, w \in Workers :
         /\ v # w
         /\ ReturnedOk(v) /\ ReturnedOk(w)
         /\ req[v].email = req[w].email
         /\ \E n \in DOMAIN files : files[n] = req[v].email /\ ~Referenced(n)

\* C9: in every state, every student document with a picture_url names a
\* file that exists in the upload directory.
C9_RecordNamesExistingFile ==
    \A d \in students :
        "picture_url" \in DOMAIN d => OldFilename(d.picture_url) \in DOMAIN files

\* C10: an upload that fails with Unauthorized, InvalidCredentials,
\* InvalidFileType or StorageWriteFailure changes no student document and
\* removes no file: the rejection itself changes nothing, a failed write
\* changes no document and removes no file, and it is the first step of
\* the upload that touches the store or the directory.
C10_FailedUploadFrame ==
    [][/\ (resp = <<>> /\ resp' # <<>> /\ resp'[1].op = "upload")
            => /\ resp'[1].status \in {"Unauthorized", "InvalidCredentials",
                                       "InvalidFileType"}
               /\ UNCHANGED <<students, files>>
       /\ \A w \in Workers :
            /\ (req[w].pc # "write" /\ req'[w].pc = "write")
                  => UNCHANGED <<students, files>>
            /\ (req[w].result # "StorageWriteFailure"
                  /\ req'[w].result = "StorageWriteFailure")
                  => /\ req[w].pc = "write"
                     /\ students' = students
                     /\ \A n \in DOMAIN files : n \in DOMAIN files']_vars

C10_Witness ==
    \E w \in Workers :
        /\ req[w].pc = "done"
        /\ req[w].result = "StorageWriteFailure"
        /\ \E d \in PictureDocs(req[w].email) :
             /\ d.picture_filename # req[w].name
             /\ OldFilename(d.picture_url) \in DOMAIN files
             /\ files[OldFilename(d.picture_url)] = req[w].email

====
